---- MODULE Spec2Model ----
(***************************************************************************)
(* Application Processor (AP) of the 2024 MTU eCTF design.                *)
(*                                                                         *)
(* The model follows application_processor.c: the flash record and its    *)
(* load at init(), the replace command, and the validate / boot / attest   *)
(* exchanges, one action per call into the message layer.                  *)
(*                                                                         *)
(* Scaling.  A "cell" stands for one 32-bit word of the packed             *)
(* flash_entry; cells are integers modulo WordMod.  The record has         *)
(* NumSlots id slots instead of 32.  The primitives that live outside      *)
(* this file (aes_encrypt, aes_decrypt, hash, rng_gen, ap_transmit,        *)
(* ap_poll_recv, reset_msg, component_id_to_i2c_addr) are modelled from    *)
(* their documented behaviour: a CBC-style cipher that is a bijection per  *)
(* IV, a collision-free keyed hash, and a bus whose peer is arbitrary.     *)
(*                                                                         *)
(* Seven specifications share the state.  SpecRoster is the life of the    *)
(* flash record: power-on with an erased page, init(), replace, reset.     *)
(* SpecBus is the prompt after init() with a loaded roster and the bus     *)
(* commands boot and attest, stepped at every ap_transmit / ap_poll_recv.  *)
(* SpecFlash is SpecRoster with one fault per run: a changed flash cell    *)
(* or a power loss after flash_simple_erase_page.  SpecScan is the list    *)
(* command over the I2C address range.  SpecCmd is the whole dispatcher    *)
(* of main() on a one-component build, with the bus steps weakly fair.     *)
(* SpecSecure is secure_receive after a boot.                              *)
(* SpecInput is the console: main's loop reading lines with recv_input.    *)
(***************************************************************************)
EXTENDS Integers, Sequences, FiniteSets, TLC

(***************************** bounds **************************************)
NumSlots == 3       \* id slots of the record (32 in the source)
WordMod  == 8       \* cells are integers modulo WordMod
MaxId    == 2       \* component ids typed / received are 0..MaxId
MaxChal  == 1       \* rng challenges received are 0..MaxChal
MaxRng   == 1       \* rng_gen() returns 0..MaxRng
InputLen == 3       \* the len argument of recv_input (100 and 50 in the source)

(************************** program constants ******************************)
SUCCESS_RETURN == 0
ERROR_RETURN == -1
UINT32_MAX == WordMod - 1      \* all ones in a word of the scaled width

COMPONENT_CMD_NONE == 0
COMPONENT_CMD_SCAN == 1
COMPONENT_CMD_VALIDATE == 2
COMPONENT_CMD_BOOT == 3
COMPONENT_CMD_ATTEST == 4

\* build-time secrets (global_secrets.h, ectf_params.h)
FLASH_MAGIC == 5
AES_KEY == 3
HASH_KEY == 1
AP_PIN == "123456"
AP_TOKEN == "0123456789abcdef"

IdSet == 0..MaxId
ChalSet == 0..MaxChal
RngSet == 0..MaxRng
ErasedCell == UINT32_MAX           \* an erased flash word reads all ones

(*************************** flash_entry layout ****************************)
\* magic, count, ids[NumSlots], hash[HASH_LEN], iv[IV_LEN], as a flat
\* sequence of cells (the code handles the struct through uint8_t casts).
HashDataLen == 2 + NumSlots             \* FLASH_ENC_LEN - 24: header and ids
HASH_LEN == HashDataLen                 \* cells of the hash
IV_LEN == 2                             \* two rng_gen() draws
HashEncLen == HASH_LEN - 1              \* the "24": leading part of the hash that is encrypted
FLASH_ENC_LEN == HashDataLen + HashEncLen
RecLen == HashDataLen + HASH_LEN + IV_LEN    \* sizeof(flash_entry)

MagicOf(r) == r[1]
CntOf(r) == r[2]
IdAt(r, k) == r[3 + k]                  \* component_ids[k], k from 0
HashOf(r) == SubSeq(r, HashDataLen + 1, HashDataLen + HASH_LEN)
IvOf(r) == SubSeq(r, HashDataLen + HASH_LEN + 1, RecLen)
ActiveIdSeq(r) == [k \in 1..CntOf(r) |-> r[2 + k]]
ActiveSet(r) == {IdAt(r, k) : k \in 0..(CntOf(r) - 1)}

\* overwrite the first Len(part) cells of r starting at position from
Overlay(r, from, part) ==
    [k \in 1..Len(r) |-> IF k >= from /\ k < from + Len(part) THEN part[k - from + 1] ELSE r[k]]

ErasedPage == [k \in 1..RecLen |-> ErasedCell]
ZeroRec == [k \in 1..RecLen |-> 0]

(***************************** primitives **********************************)
IvMix(iv) == (iv[1] + 2 * iv[2]) % WordMod

\* CBC-style chaining: every cipher cell depends on the previous cipher cell
aes_encrypt(src, iv, len) ==
    LET c[k \in 0..len] ==
            IF k = 0 THEN IvMix(iv) ELSE (src[k] + AES_KEY + c[k - 1]) % WordMod
    IN  [k \in 1..len |-> c[k]]

aes_decrypt(src, iv, len) ==
    [k \in 1..len |->
        (src[k] + 2 * WordMod - AES_KEY - (IF k = 1 THEN IvMix(iv) ELSE src[k - 1])) % WordMod]

\* keyed hash over the first len cells: position-dependent, collision-free
hash(src, len) == [k \in 1..len |-> (src[k] + HASH_KEY + k) % WordMod]

\* hash((uint8_t*)&flash_status, flash_status.hash, FLASH_ENC_LEN - 24)
SetHash(r) == Overlay(r, HashDataLen + 1, hash(r, HashDataLen))

\* the encrypted copy of the record that is written to flash:
\* memcpy of the whole record, then aes_encrypt over the first FLASH_ENC_LEN
EncryptedCopy(r) == Overlay(r, 1, aes_encrypt(r, IvOf(r), FLASH_ENC_LEN))

\* variant: the decrypt stops at the end of the ids
DecryptedCopy_short(raw) == Overlay(raw, 1, aes_decrypt(raw, IvOf(raw), HashDataLen))

\* flash_simple_read, aes_decrypt with the in-flash IV, memcpy back
DecryptedCopy(raw) == Overlay(raw, 1, aes_decrypt(raw, IvOf(raw), FLASH_ENC_LEN))

\* variant: memcmp over the encrypted part of the hash only
HashOk_prefix(r) == SubSeq(HashOf(r), 1, HashEncLen) = SubSeq(hash(r, HashDataLen), 1, HashEncLen)

\* !memcmp(flash_status.hash, flashHash, HASH_LEN)
HashOk(r) == HashOf(r) = hash(r, HashDataLen)
MagicOk(r) == MagicOf(r) = FLASH_MAGIC
IntegrityOk(r) == MagicOk(r) /\ HashOk(r)

(******************************* state *************************************)
VARIABLES
    cmd,              \* the command being run, or the last one run
    pc,               \* position of the program: "start", "main", an exchange step, "post_boot"
    flash,            \* the flash page at FLASH_ADDR
    flash_status,     \* the in-memory flash_entry
    build_ids,        \* COMPONENT_IDS of this build
    transmit,         \* global transmit frame
    receive,          \* global receive frame
    i,                \* loop index of validate_components / boot_components
    component_id,     \* argument of attest_component
    comp_challenges,  \* attempt_boot's comp_challenges[]
    validate_result,
    boot_result,
    out,              \* console lines printed by the current command
    log,              \* message-layer calls made by the current command
    lastChal,         \* per roster index: rng_chal of the last frame accepted during validate
    valid,            \* roster indices whose validate reply carried the roster id
    booted,           \* roster indices that answered the boot message with verdict 0
    flashOps,         \* erase / write calls issued by the current command
    lastRep,          \* ids of the last successful replace, until a bus command is run
    reloaded,         \* TRUE once init() has run after that replace
    fault,            \* the fault of the flash page before the last load, "spent" after it; one per run
    typed,            \* what was typed at the "Component ID: " prompt of attest
    secret,           \* the line typed at the PIN / token prompt of the current command
    address,          \* the address argument of secure_receive
    buffer,           \* the caller's buffer of secure_receive
    ret,              \* return value of secure_receive
    stdin,            \* characters the host has written that no fgets has read yet
    main_buf,         \* main's buf[], the buffer every prompt is read into
    hostLine          \* the line the host wrote at the current prompt

vars == <<cmd, pc, flash, flash_status, build_ids, transmit, receive, i, component_id,
          comp_challenges, validate_result, boot_result, out, log, lastChal,
          valid, booted, flashOps, lastRep, reloaded, fault, typed, secret,
          address, buffer, ret,
                   stdin, main_buf, hostLine>>

\* COMPONENT_IDS of the builds considered: one to three ids, with and
\* without an id provisioned twice
BuildRosters == {<<1>>, <<1, 2>>, <<2, 2>>, <<1, 2, 1>>}

Uninit == MaxChal + 1     \* an array cell that was never written (no challenge value)
NoChal == MaxChal + 2     \* no frame accepted yet (no challenge value)
NoRep == <<>>
NoLine == <<"">>          \* the host wrote nothing at this prompt (no line: lines hold characters)
NotHex == MaxId + 1       \* a line sscanf("%x") converts nothing from (no id value)
NoInput == MaxId + 2      \* nothing typed (no id value)

\* a fault of the flash page counts for the load that follows it
Spent(f) == IF f = "none" THEN "none" ELSE "spent"

\* variant: reset_msg leaves the challenge of the receive frame
ZeroReceive_chal == [rng_chal |-> 1, contents |-> 0]

\* reset_msg(): both frames zeroed
ZeroTransmit == [opcode |-> COMPONENT_CMD_NONE, contents |-> 0]
ZeroReceive == [rng_chal |-> 0, contents |-> 0]

Cnt == CntOf(flash_status)
Roster == 0..(Cnt - 1)

Init ==
    /\ cmd = "none"
    /\ pc = "start"
    /\ flash = ErasedPage
    /\ flash_status = ZeroRec
    /\ build_ids \in BuildRosters
    /\ transmit = ZeroTransmit
    /\ receive = ZeroReceive
    /\ i = 0
    /\ component_id = 0
    /\ comp_challenges = <<>>
    /\ validate_result = SUCCESS_RETURN
    /\ boot_result = SUCCESS_RETURN
    /\ out = <<>>
    /\ log = <<>>
    /\ lastChal = <<>>
    /\ valid = {}
    /\ booted = {}
    /\ flashOps = <<>>
    /\ lastRep = NoRep
    /\ reloaded = FALSE
    /\ fault = "none"
    /\ typed = NoInput
    /\ secret = ""
    /\ address = 0
    /\ buffer = <<>>
    /\ stdin = <<>>
    /\ main_buf = <<>>
    /\ hostLine = NoLine
    /\ ret = 0

(******************************* init() ************************************)
\* the defaults written over the decrypted record when the check fails
DefaultRecord(dec, ids) ==
    [k \in 1..RecLen |->
        IF k = 1 THEN FLASH_MAGIC
        ELSE IF k = 2 THEN Len(ids)
        ELSE IF k >= 3 /\ k < 3 + Len(ids) THEN ids[k - 2]
        ELSE dec[k]]

SetIv(r, iv) == Overlay(r, HashDataLen + HASH_LEN + 1, iv)

\* variant: the rebuild without the hash call
RebuiltRecord_nohash(dec, ids, iv) == SetIv(DefaultRecord(dec, ids), iv)

\* record rebuilt by init() when magic or hash fails
RebuiltRecord(dec, ids, iv) == SetIv(SetHash(DefaultRecord(dec, ids)), iv)

init ==
    /\ pc = "start"
    /\ cmd' = "none"
    /\ LET dec == DecryptedCopy(flash) IN
         IF IntegrityOk(dec)
         THEN /\ flash_status' = dec
              /\ flash' = flash
              /\ flashOps' = <<>>
              /\ out' = <<>>
         ELSE \E r1 \in RngSet, r2 \in RngSet :
                LET fs == RebuiltRecord(dec, build_ids, <<r1, r2>>) IN
                  /\ flash_status' = fs
                  /\ flash' = EncryptedCopy(fs)
                  /\ flashOps' = <<"erase", "write">>
                  /\ out' = <<"Failed to verify flash integrity, resetting flash!">>
    /\ pc' = "main"
    /\ transmit' = ZeroTransmit
    /\ receive' = ZeroReceive
    /\ reloaded' = (lastRep # NoRep)
    /\ UNCHANGED <<build_ids, i, component_id, comp_challenges, validate_result,
                   boot_result, log, lastChal, valid, booted, lastRep,
                   fault, typed, secret, address, buffer, ret,
                   stdin, main_buf, hostLine>>

\* board reset: RAM is lost, flash is kept
Reboot ==
    /\ pc # "start"
    /\ cmd' = "none"
    /\ pc' = "start"
    /\ flash_status' = ZeroRec
    /\ transmit' = ZeroTransmit
    /\ receive' = ZeroReceive
    /\ i' = 0
    /\ component_id' = 0
    /\ comp_challenges' = <<>>
    /\ validate_result' = SUCCESS_RETURN
    /\ boot_result' = SUCCESS_RETURN
    /\ out' = <<>>
    /\ log' = <<>>
    /\ lastChal' = <<>>
    /\ valid' = {}
    /\ booted' = {}
    /\ flashOps' = <<>>
    /\ fault' = Spent(fault)
    /\ typed' = NoInput
    /\ secret' = ""
    /\ address' = 0
    /\ buffer' = <<>>
    /\ stdin' = <<>>
    /\ main_buf' = <<>>
    /\ hostLine' = NoLine
    /\ ret' = 0
    /\ UNCHANGED <<flash, build_ids, lastRep, reloaded>>

(**************************** operator auth ********************************)
TokenInputs == {AP_TOKEN, "0123456789abcdeX", "0123"}
PinInputs == {AP_PIN, "12345X", "123"}

\* variant: the length is checked, the bytes are not compared
validate_token_len(buf) == IF Len(buf) = 16 THEN SUCCESS_RETURN ELSE ERROR_RETURN

\* strlen(buf) == 16 && !secure_memcmp(buf, token, 16)
validate_token(buf) == IF Len(buf) = 16 /\ buf = AP_TOKEN THEN SUCCESS_RETURN ELSE ERROR_RETURN
\* strlen(buf) == 6 && !secure_memcmp(buf, pin, 6)
validate_pin(buf) == IF Len(buf) = 6 /\ buf = AP_PIN THEN SUCCESS_RETURN ELSE ERROR_RETURN

(***************************** attempt_replace *****************************)
\* variant: the duplicate check is missing
AlreadyProvisioned_never(r, id) == FALSE

\* the first loop of attempt_replace: id is in an active slot
AlreadyProvisioned(r, id) == \E k \in 0..(CntOf(r) - 1) : IdAt(r, k) = id

HoldingSlots(r, id) == {k \in 0..(CntOf(r) - 1) : IdAt(r, k) = id}

\* variant: the second loop keeps the last slot holding id
FirstSlot_last(r, id) == CHOOSE k \in HoldingSlots(r, id) : \A m \in HoldingSlots(r, id) : k >= m

\* the slot the second loop stops at: the first one holding id
FirstSlot(r, id) == CHOOSE k \in HoldingSlots(r, id) : \A m \in HoldingSlots(r, id) : k <= m

\* variant: the swap without the hash update
ReplacedRecord_stale(r, k, id_in) == [r EXCEPT ![3 + k] = id_in]

\* flash_status after the swap and the hash update
ReplacedRecord(r, k, id_in) == SetHash([r EXCEPT ![3 + k] = id_in])

\* variant: the swap loop runs before the duplicate check
ReplaceResult_swapfirst(r, id_in, id_out) ==
    IF HoldingSlots(r, id_out) # {} /\ AlreadyProvisioned(r, id_in)
    THEN [line |-> "already provisioned",
          rec |-> ReplacedRecord(r, FirstSlot(r, id_out), id_in), write |-> FALSE]
    ELSE IF AlreadyProvisioned(r, id_in)
    THEN [line |-> "already provisioned", rec |-> r, write |-> FALSE]
    ELSE IF HoldingSlots(r, id_out) # {}
    THEN [line |-> "Replace", rec |-> ReplacedRecord(r, FirstSlot(r, id_out), id_in), write |-> TRUE]
    ELSE [line |-> "not provisioned", rec |-> r, write |-> FALSE]

\* lines 540-575 as a function of the record and the two ids: the line
\* printed, the record left in memory, and whether the page is rewritten
ReplaceResult(r, id_in, id_out) ==
    IF AlreadyProvisioned(r, id_in)
    THEN [line |-> "already provisioned", rec |-> r, write |-> FALSE]
    ELSE IF HoldingSlots(r, id_out) # {}
    THEN [line |-> "Replace", rec |-> ReplacedRecord(r, FirstSlot(r, id_out), id_in), write |-> TRUE]
    ELSE [line |-> "not provisioned", rec |-> r, write |-> FALSE]

attempt_replace ==
    /\ pc = "main"
    /\ cmd' = "replace"
    /\ \E tok \in TokenInputs, id_in \in IdSet, id_out \in IdSet :
         /\ secret' = tok
         /\ IF validate_token(tok) # SUCCESS_RETURN
            THEN /\ out' = <<"Invalid Token!">>
                 /\ flashOps' = <<>>
                 /\ UNCHANGED <<flash, flash_status, lastRep, reloaded>>
            ELSE LET res == ReplaceResult(flash_status, id_in, id_out) IN
                 /\ out' = <<res.line>>
                 /\ flash_status' = res.rec
                 /\ flash' = IF res.write THEN EncryptedCopy(res.rec) ELSE flash
                 /\ flashOps' = IF res.write THEN <<"erase", "write">> ELSE <<>>
                 /\ IF res.line = "Replace"
                    THEN /\ lastRep' = <<id_out, id_in,
                                         Cardinality(HoldingSlots(flash_status, id_out))>>
                         /\ reloaded' = FALSE
                    ELSE UNCHANGED <<lastRep, reloaded>>
    /\ log' = <<>>
    /\ transmit' = ZeroTransmit
    /\ receive' = ZeroReceive
    /\ i' = 0
    /\ validate_result' = SUCCESS_RETURN
    /\ boot_result' = SUCCESS_RETURN
    /\ comp_challenges' = <<>>
    /\ lastChal' = <<>>
    /\ valid' = {}
    /\ booted' = {}
    /\ fault' = Spent(fault)
    /\ typed' = NoInput
    /\ component_id' = 0
    /\ UNCHANGED <<pc, build_ids, address, buffer, ret,
                   stdin, main_buf, hostLine>>

(***************************** message layer *******************************)
\* component_id_to_i2c_addr(): the low byte of the id
component_id_to_i2c_addr(id) == id % 256

\* what one ap_poll_recv call can do: nothing arrives, a frame arrives and
\* passes the challenge check, or a frame arrives and fails it
RecvOutcomes == {"ok", "timeout", "mismatch"}
RecvResult(o) == IF o = "ok" THEN SUCCESS_RETURN ELSE ERROR_RETURN
Populate(o, c, w) == IF o = "timeout" THEN receive ELSE [rng_chal |-> c, contents |-> w]

SendEv(phase, idx, id, result) ==
    [ev |-> "send", phase |-> phase, idx |-> idx, addr |-> component_id_to_i2c_addr(id),
     opcode |-> transmit.opcode, contents |-> transmit.contents, skip |-> FALSE,
     ok |-> (result = SUCCESS_RETURN)]
RecvEv(phase, idx, id, skip, result) ==
    [ev |-> "recv", phase |-> phase, idx |-> idx, addr |-> component_id_to_i2c_addr(id),
     opcode |-> COMPONENT_CMD_NONE, contents |-> 0, skip |-> skip,
     ok |-> (result = SUCCESS_RETURN)]

\* variant: the result of ap_transmit is not looked at
IssueSendOk_ignored(result) == TRUE

\* issue_cmd(): the two early returns
IssueSendOk(result) == result = SUCCESS_RETURN
IssueRecvOk(result) == result = SUCCESS_RETURN
IssueSkipChal == FALSE          \* ap_poll_recv(addr, 0)

(*********************** validate_components / boot_components *************)
\* an uninitialised array cell reads as any value
ReadChal(v) == IF v = Uninit THEN ChalSet ELSE {v}

\* variant: the verdict is always "boot"
BootVerdict_always0(br) == SUCCESS_RETURN

\* the verdict written into transmit.contents
BootVerdict(br) == IF br # SUCCESS_RETURN THEN UINT32_MAX ELSE SUCCESS_RETURN

\* variant: the reply id is not compared
ValidateIdOk_any(id, k) == TRUE

\* id check after the second round
ValidateIdOk(id, k) == id = IdAt(flash_status, k)

\* variant: the verdict echoed by the component is not looked at
CompBootOk_any(w) == TRUE

\* comp_boot == SUCCESS_RETURN
CompBootOk(w) == w = SUCCESS_RETURN

\* variant: boot() is called whatever boot_components returned
BootTail_always(br, o) ==
    /\ transmit' = ZeroTransmit
    /\ receive' = ZeroReceive
    /\ out' = IF br # SUCCESS_RETURN THEN Append(o, "Boot Failed") ELSE o \o <<"AP>", "Boot">>
    /\ pc' = "post_boot"

\* attempt_boot after boot_components returned br
BootTail(br, o) ==
    /\ transmit' = ZeroTransmit
    /\ receive' = ZeroReceive
    /\ IF br # SUCCESS_RETURN
       THEN /\ out' = Append(o, "Boot Failed")
            /\ pc' = "main"
       ELSE /\ out' = o \o <<"AP>", "Boot">>
            /\ pc' = "post_boot"

\* variant: boot_components sets the opcode of its frames
BootLoop_opcode(n, vr, br, ch, o, rx) ==
    /\ i' = n
    /\ validate_result' = vr
    /\ boot_result' = br
    /\ comp_challenges' = ch
    /\ IF n < Cnt
       THEN \E c \in ReadChal(ch[n]) :
              /\ receive' = [rx EXCEPT !.rng_chal = c]
              /\ transmit' = [opcode |-> COMPONENT_CMD_BOOT, contents |-> BootVerdict(br)]
              /\ out' = o
              /\ pc' = "boot_send"
       ELSE BootTail(br, o)

\* loop test of boot_components with the index at n, then the code up to ap_transmit
BootLoop(n, vr, br, ch, o, rx) ==
    /\ i' = n
    /\ validate_result' = vr
    /\ boot_result' = br
    /\ comp_challenges' = ch
    /\ IF n < Cnt
       THEN \E c \in ReadChal(ch[n]) :
              /\ receive' = [rx EXCEPT !.rng_chal = c]
              /\ transmit' = [transmit EXCEPT !.contents = BootVerdict(br)]
              /\ out' = o
              /\ pc' = "boot_send"
       ELSE BootTail(br, o)

\* variant: the validate loop stops one component early
ValidateLoop_short(n, vr, ch, o, rx) ==
    IF n < Cnt - 1
    THEN /\ i' = n
         /\ validate_result' = vr
         /\ comp_challenges' = ch
         /\ out' = o
         /\ receive' = rx
         /\ transmit' = [transmit EXCEPT !.opcode = COMPONENT_CMD_VALIDATE]
         /\ pc' = "val_send1"
         /\ UNCHANGED boot_result
    ELSE BootLoop(0, vr, vr, ch, o, rx)

\* loop test of validate_components with the index at n, then the code up to ap_transmit
ValidateLoop(n, vr, ch, o, rx) ==
    IF n < Cnt
    THEN /\ i' = n
         /\ validate_result' = vr
         /\ comp_challenges' = ch
         /\ out' = o
         /\ receive' = rx
         /\ transmit' = [transmit EXCEPT !.opcode = COMPONENT_CMD_VALIDATE]
         /\ pc' = "val_send1"
         /\ UNCHANGED boot_result
    ELSE BootLoop(0, vr, vr, ch, o, rx)

\* variant: break instead of continue
ValidateFail_break(rx) ==
    BootLoop(0, ERROR_RETURN, ERROR_RETURN, comp_challenges, Append(out, "invalid"), rx)

\* print_error, validate_result = ERROR_RETURN, continue
ValidateFail(rx) ==
    ValidateLoop(i + 1, ERROR_RETURN, comp_challenges, Append(out, "invalid"), rx)

Frozen == UNCHANGED <<cmd, flash, flash_status, build_ids, component_id, flashOps, lastRep,
                      reloaded, fault, typed, secret, address, buffer, ret,
                   stdin, main_buf, hostLine>>

\* "boot" typed at the prompt: attempt_boot up to the first ap_transmit
attempt_boot ==
    /\ pc = "main"
    /\ cmd' = "boot"
    /\ log' = <<>>
    /\ lastChal' = [k \in Roster |-> NoChal]
    /\ valid' = {}
    /\ booted' = {}
    /\ ValidateLoop(0, SUCCESS_RETURN, [k \in Roster |-> Uninit], <<>>, ZeroReceive)
    /\ fault' = Spent(fault)
    /\ typed' = NoInput
    /\ secret' = ""
    /\ flashOps' = <<>>
    /\ lastRep' = NoRep
    /\ reloaded' = FALSE
    /\ component_id' = 0
    /\ UNCHANGED <<flash, flash_status, build_ids, address, buffer, ret,
                   stdin, main_buf, hostLine>>

ValSend(step) ==
    /\ \E result \in {SUCCESS_RETURN, ERROR_RETURN} :
         /\ log' = Append(log, SendEv("validate", i, IdAt(flash_status, i), result))
         /\ IF IssueSendOk(result)
            THEN /\ pc' = (IF step = "val_send1" THEN "val_recv1" ELSE "val_recv2")
                 /\ UNCHANGED <<i, transmit, receive, validate_result, boot_result,
                                comp_challenges, out>>
            ELSE ValidateFail(receive)
    /\ UNCHANGED <<lastChal, valid, booted>>
    /\ Frozen

val_send1 ==
    /\ pc = "val_send1"
    /\ ValSend("val_send1")

val_send2 ==
    /\ pc = "val_send2"
    /\ ValSend("val_send2")

val_recv1 ==
    /\ pc = "val_recv1"
    /\ \E o \in RecvOutcomes, c \in ChalSet, w \in IdSet :
         LET rx == Populate(o, c, w) IN
         /\ log' = Append(log, RecvEv("validate", i, IdAt(flash_status, i), IssueSkipChal, RecvResult(o)))
         /\ lastChal' = IF o = "ok" THEN [lastChal EXCEPT ![i] = c] ELSE lastChal
         /\ IF IssueRecvOk(RecvResult(o))
            THEN /\ pc' = "val_send2"
                 /\ receive' = rx
                 /\ UNCHANGED <<i, transmit, validate_result, boot_result, comp_challenges, out>>
            ELSE ValidateFail(rx)
    /\ UNCHANGED <<valid, booted>>
    /\ Frozen

val_recv2 ==
    /\ pc = "val_recv2"
    /\ \E o \in RecvOutcomes, c \in ChalSet, w \in IdSet :
         LET rx == Populate(o, c, w) IN
         /\ log' = Append(log, RecvEv("validate", i, IdAt(flash_status, i), IssueSkipChal, RecvResult(o)))
         /\ lastChal' = IF o = "ok" THEN [lastChal EXCEPT ![i] = c] ELSE lastChal
         /\ valid' = IF o = "ok" /\ w = IdAt(flash_status, i) THEN valid \cup {i} ELSE valid
         /\ IF IssueRecvOk(RecvResult(o))
            THEN LET ch == [comp_challenges EXCEPT ![i] = rx.rng_chal] IN
                   IF ValidateIdOk(rx.contents, i)
                   THEN ValidateLoop(i + 1, validate_result, ch, out, rx)
                   ELSE ValidateLoop(i + 1, ERROR_RETURN, ch, Append(out, "invalid"), rx)
            ELSE ValidateFail(rx)
    /\ UNCHANGED booted
    /\ Frozen

boot_send ==
    /\ pc = "boot_send"
    /\ \E result \in {SUCCESS_RETURN, ERROR_RETURN} :
         /\ log' = Append(log, SendEv("boot", i, IdAt(flash_status, i), result))
         /\ IF IssueSendOk(result)
            THEN /\ pc' = "boot_recv"
                 /\ UNCHANGED <<i, transmit, receive, validate_result, boot_result,
                                comp_challenges, out>>
            ELSE BootLoop(i + 1, validate_result, ERROR_RETURN, comp_challenges,
                          Append(out, "Could not boot"), receive)
    /\ UNCHANGED <<lastChal, valid, booted>>
    /\ Frozen

boot_recv ==
    /\ pc = "boot_recv"
    /\ \E o \in RecvOutcomes, c \in ChalSet, w \in IdSet :
         LET rx == Populate(o, c, w) IN
         /\ log' = Append(log, RecvEv("boot", i, IdAt(flash_status, i), IssueSkipChal, RecvResult(o)))
         /\ booted' = IF o = "ok" /\ w = 0 THEN booted \cup {i} ELSE booted
         /\ IF IssueRecvOk(RecvResult(o)) /\ CompBootOk(rx.contents)
            THEN BootLoop(i + 1, validate_result, boot_result, comp_challenges,
                          Append(out, "booted"), rx)
            ELSE BootLoop(i + 1, validate_result, ERROR_RETURN, comp_challenges,
                          Append(out, "Could not boot"), rx)
    /\ UNCHANGED <<lastChal, valid>>
    /\ Frozen

(************************ attempt_attest / attest_component *****************)
\* the provisioned check at the top of attest_component
AttestProvisioned(id) == \E k \in Roster : id = IdAt(flash_status, k)

\* print_error and return to the prompt (main's reset_msg included)
AttestFail(line) ==
    /\ out' = Append(out, line)
    /\ pc' = "main"
    /\ transmit' = ZeroTransmit
    /\ receive' = ZeroReceive
    /\ UNCHANGED <<i, validate_result, boot_result, comp_challenges>>

BusIdle == UNCHANGED <<lastChal, valid, booted>>

\* lines typed at an id prompt: a hex id, or a line that is no hex number
IdInputs == IdSet \cup {NotHex}

\* uint32_t component_id; sscanf(buf, "%x", &component_id): the variable is
\* written only when the line converts, otherwise it keeps its indeterminate
\* value
sscanf_uninit(line) == IF line = NotHex THEN IdSet ELSE {line}

\* "attest" typed at the prompt: validate_pin, the id prompt, attest_component
\* up to the first ap_transmit
attempt_attest ==
    /\ pc = "main"
    /\ cmd' = "attest"
    /\ log' = <<>>
    /\ \E pin \in PinInputs, line \in IdInputs :
         IF validate_pin(pin) # SUCCESS_RETURN
         THEN /\ out' = <<"Invalid PIN!">>
              /\ typed' = NoInput
              /\ secret' = pin
              /\ UNCHANGED <<pc, transmit, receive, component_id>>
         ELSE \E id \in sscanf_uninit(line) :
              /\ typed' = line
              /\ secret' = pin
              /\ component_id' = id
              /\ IF ~AttestProvisioned(id)
                 THEN /\ out' = <<"Cannot attest non-provisioned component">>
                      /\ UNCHANGED <<pc, transmit, receive>>
                 ELSE /\ out' = <<>>
                      /\ transmit' = [ZeroTransmit EXCEPT !.opcode = COMPONENT_CMD_ATTEST]
                      /\ receive' = ZeroReceive
                      /\ pc' = "att_send1"
    /\ i' = 0
    /\ validate_result' = SUCCESS_RETURN
    /\ boot_result' = SUCCESS_RETURN
    /\ comp_challenges' = <<>>
    /\ lastChal' = <<>>
    /\ valid' = {}
    /\ booted' = {}
    /\ fault' = Spent(fault)
    /\ flashOps' = <<>>
    /\ lastRep' = NoRep
    /\ reloaded' = FALSE
    /\ UNCHANGED <<flash, flash_status, build_ids, address, buffer, ret,
                   stdin, main_buf, hostLine>>

AttSend(step) ==
    /\ \E result \in {SUCCESS_RETURN, ERROR_RETURN} :
         /\ log' = Append(log, SendEv("attest", 0, component_id, result))
         /\ IF IssueSendOk(result)
            THEN /\ pc' = (IF step = "att_send1" THEN "att_recv1" ELSE "att_recv2")
                 /\ UNCHANGED <<i, transmit, receive, validate_result, boot_result,
                                comp_challenges, out>>
            ELSE AttestFail(IF step = "att_send1" THEN "Failed to validate component"
                            ELSE "Failed to retrieve attestation data")
    /\ BusIdle
    /\ Frozen

att_send1 ==
    /\ pc = "att_send1"
    /\ AttSend("att_send1")

att_send2 ==
    /\ pc = "att_send2"
    /\ AttSend("att_send2")

att_recv1 ==
    /\ pc = "att_recv1"
    /\ \E o \in RecvOutcomes, c \in ChalSet, w \in IdSet :
         /\ log' = Append(log, RecvEv("attest", 0, component_id, IssueSkipChal, RecvResult(o)))
         /\ IF IssueRecvOk(RecvResult(o))
            THEN /\ pc' = "att_send2"
                 /\ receive' = Populate(o, c, w)
                 /\ UNCHANGED <<i, transmit, validate_result, boot_result, comp_challenges, out>>
            ELSE AttestFail("Failed to validate component")
    /\ BusIdle
    /\ Frozen

att_recv2 ==
    /\ pc = "att_recv2"
    /\ \E o \in RecvOutcomes, c \in ChalSet, w \in IdSet :
         /\ log' = Append(log, RecvEv("attest", 0, component_id, IssueSkipChal, RecvResult(o)))
         /\ IF IssueRecvOk(RecvResult(o))
            THEN /\ out' = out \o <<"C>", "LOC>", "DATE>", "CUST>", "Attest">>
                 /\ pc' = "main"
                 /\ transmit' = ZeroTransmit
                 /\ receive' = ZeroReceive
                 /\ UNCHANGED <<i, validate_result, boot_result, comp_challenges>>
            ELSE AttestFail("Failed to retrieve attestation data")
    /\ BusIdle
    /\ Frozen

(****************************** scan_components ****************************)
I2C_FIRST == 8                   \* 0x8
I2C_END == 120                   \* 0x78
\* variant: 0x36 is not skipped
I2cBlacklist_short == {24, 40}
I2cBlacklist == {24, 40, 54}     \* 0x18, 0x28, 0x36

\* print_info("P>0x%08x\n", id), print_info("F>0x%08x\n", id)
ProvisionedLine(id) == "P>" \o ToString(id)
FoundLine(id) == "F>" \o ToString(id)

\* the console after one more F> line: the P> lines, then the F> line just
\* printed (of the F> lines of one list command only the last is kept)
WithFound(o, id) == Append(SubSeq(o, 1, Cnt), FoundLine(id))

\* the first address from n on that the loop body runs for, I2C_END when none
NextScanAddr(n) ==
    LET rest == {a \in n..(I2C_END - 1) : a \notin I2cBlacklist} IN
    IF rest = {} THEN I2C_END ELSE CHOOSE a \in rest : \A b \in rest : a <= b

\* loop test of scan_components with the address at n, then the code up to
\* ap_transmit; after the loop the List marker and main's reset_msg
ScanLoop(n, o, rx) ==
    LET a == NextScanAddr(n) IN
    /\ i' = a
    /\ IF a < I2C_END
       THEN /\ transmit' = [transmit EXCEPT !.opcode = COMPONENT_CMD_SCAN]
            /\ receive' = rx
            /\ out' = o
            /\ pc' = "scan_send"
       ELSE /\ transmit' = ZeroTransmit
            /\ receive' = ZeroReceive
            /\ out' = Append(o, "List")
            /\ pc' = "main"

\* the ap_transmit call of issue_cmd(addr) in the scan loop
ScanEv(addr) ==
    [ev |-> "send", phase |-> "scan", addr |-> addr, opcode |-> transmit.opcode]

\* "list" typed at the prompt: the P> lines, then the loop up to the first ap_transmit
scan_components ==
    /\ pc = "main"
    /\ cmd' = "list"
    /\ log' = <<>>
    /\ ScanLoop(I2C_FIRST, [k \in 1..Cnt |-> ProvisionedLine(IdAt(flash_status, k - 1))],
                ZeroReceive)
    /\ validate_result' = SUCCESS_RETURN
    /\ boot_result' = SUCCESS_RETURN
    /\ comp_challenges' = <<>>
    /\ lastChal' = <<>>
    /\ valid' = {}
    /\ booted' = {}
    /\ fault' = Spent(fault)
    /\ typed' = NoInput
    /\ secret' = ""
    /\ flashOps' = <<>>
    /\ lastRep' = NoRep
    /\ reloaded' = FALSE
    /\ component_id' = 0
    /\ UNCHANGED <<flash, flash_status, build_ids, address, buffer, ret,
                   stdin, main_buf, hostLine>>

scan_send ==
    /\ pc = "scan_send"
    /\ log' = Append(log, ScanEv(i))
    /\ \E result \in {SUCCESS_RETURN, ERROR_RETURN} :
         IF IssueSendOk(result)
         THEN /\ pc' = "scan_recv"
              /\ UNCHANGED <<i, transmit, receive, out>>
         ELSE ScanLoop(i + 1, out, receive)
    /\ UNCHANGED <<validate_result, boot_result, comp_challenges, lastChal, valid, booted>>
    /\ Frozen

scan_recv ==
    /\ pc = "scan_recv"
    /\ \E o \in RecvOutcomes, c \in ChalSet, w \in IdSet :
         LET rx == Populate(o, c, w) IN
         IF IssueRecvOk(RecvResult(o))
         THEN ScanLoop(i + 1, WithFound(out, rx.contents), rx)
         ELSE ScanLoop(i + 1, out, rx)
    /\ UNCHANGED <<log, validate_result, boot_result, comp_challenges, lastChal, valid, booted>>
    /\ Frozen

(******************************* secure_receive ****************************)
SR_MAX_LEN == 64                 \* if (len > 64) return -1
BufLen == 255                    \* bytes of the caller's buffer that are looked at
LenInputs == {0, 1, 64, 65, 255} \* length prefixes a peer can send (uint8_t)
SeedInputs == {0, 1}
AddrInputs == {component_id_to_i2c_addr(id) : id \in IdSet}

\* receive.contents of a post-boot message: the length prefix, then payload
\* bytes (byte k of the payload is seed + k, never 255)
SrContents(len, seed) == [k \in 1..(BufLen + 1) |-> IF k = 1 THEN len ELSE (seed + k - 1) % 255]
\* the caller's buffer before the first call: no payload byte
FreshBuffer == [k \in 1..BufLen |-> 255]

SrPopulate(o, c, len, seed) ==
    IF o = "timeout" THEN receive ELSE [rng_chal |-> c, contents |-> SrContents(len, seed)]

\* variant: the length is not capped
SrLenOk_none(len) == TRUE

\* !(len > 64)
SrLenOk(len) == ~(len > SR_MAX_LEN)

\* memcpy(buffer, &receive.contents[1], len)
SrCopy(buf, contents, len) == [k \in 1..BufLen |-> IF k <= len THEN contents[k + 1] ELSE buf[k]]

SrIdle ==
    UNCHANGED <<cmd, flash, flash_status, build_ids, i, component_id, comp_challenges,
                validate_result, boot_result, out, lastChal, valid, booted, flashOps,
                lastRep, reloaded, fault, typed, secret, address, transmit,
                stdin, main_buf, hostLine>>

\* the post-boot code calls secure_receive(address, buffer): reset_msg
secure_receive ==
    /\ pc = "post_boot"
    /\ cmd' = "secure_receive"
    /\ \E a \in AddrInputs : address' = a
    /\ buffer' = IF buffer = <<>> THEN FreshBuffer ELSE buffer
    /\ ret' = 0
    /\ transmit' = ZeroTransmit
    /\ receive' = ZeroReceive
    /\ log' = <<>>
    /\ out' = <<>>
    /\ i' = 0
    /\ comp_challenges' = <<>>
    /\ lastChal' = <<>>
    /\ valid' = {}
    /\ booted' = {}
    /\ pc' = "sr_recv1"
    /\ UNCHANGED <<flash, flash_status, build_ids, component_id, validate_result, boot_result,
                   flashOps, lastRep, reloaded, fault, typed, secret,
                   stdin, main_buf, hostLine>>

\* result = ap_poll_recv(address, 1)
sr_recv1 ==
    /\ pc = "sr_recv1"
    /\ \E o \in RecvOutcomes, c \in ChalSet, len \in LenInputs, seed \in SeedInputs :
         /\ log' = Append(log, RecvEv("secure_receive", 0, address, TRUE, RecvResult(o)))
         /\ receive' = SrPopulate(o, c, len, seed)
         /\ IF RecvResult(o) # SUCCESS_RETURN
            THEN ret' = -1 /\ pc' = "post_boot"
            ELSE ret' = ret /\ pc' = "sr_send"
    /\ UNCHANGED buffer
    /\ SrIdle

\* ap_transmit(address), the result is dropped
sr_send ==
    /\ pc = "sr_send"
    /\ \E result \in {SUCCESS_RETURN, ERROR_RETURN} :
         log' = Append(log, SendEv("secure_receive", 0, address, result))
    /\ pc' = "sr_recv2"
    /\ UNCHANGED <<receive, buffer, ret>>
    /\ SrIdle

\* result = ap_poll_recv(address, 0), the length check, the copy
sr_recv2 ==
    /\ pc = "sr_recv2"
    /\ \E o \in RecvOutcomes, c \in ChalSet, len \in LenInputs, seed \in SeedInputs :
         LET rx == SrPopulate(o, c, len, seed) IN
         /\ log' = Append(log, RecvEv("secure_receive", 0, address, FALSE, RecvResult(o)))
         /\ receive' = rx
         /\ IF RecvResult(o) # SUCCESS_RETURN \/ ~SrLenOk(rx.contents[1])
            THEN ret' = -1 /\ UNCHANGED buffer
            ELSE /\ buffer' = SrCopy(buffer, rx.contents, rx.contents[1])
                 /\ ret' = rx.contents[1]
    /\ pc' = "post_boot"
    /\ SrIdle

\* an unrecognised line at the prompt: an error line, nothing else
unknown_command ==
    /\ pc = "main"
    /\ cmd' = "unknown"
    /\ out' = <<"Unrecognized command">>
    /\ log' = <<>>
    /\ transmit' = ZeroTransmit
    /\ receive' = ZeroReceive
    /\ i' = 0
    /\ validate_result' = SUCCESS_RETURN
    /\ boot_result' = SUCCESS_RETURN
    /\ comp_challenges' = <<>>
    /\ lastChal' = <<>>
    /\ valid' = {}
    /\ booted' = {}
    /\ fault' = Spent(fault)
    /\ typed' = NoInput
    /\ secret' = ""
    /\ flashOps' = <<>>
    /\ component_id' = 0
    /\ UNCHANGED <<pc, flash, flash_status, build_ids, lastRep, reloaded,
                   address, buffer, ret,
                   stdin, main_buf, hostLine>>

\* ---- the roster life cycle: power-on, load, replace, reset ----
NextRoster == init \/ Reboot \/ attempt_replace \/ unknown_command

SpecRoster == Init /\ [][NextRoster]_vars

\* ---- the flash page under faults: a changed cell, a power loss after the erase ----
\* the cells of the page that hold the encrypted region and the hash
GuardedCells == 1..(HashDataLen + HASH_LEN)

\* power is removed: RAM is lost, the program starts over at init()
PowerOff ==
    /\ cmd' = "none"
    /\ pc' = "start"
    /\ flash_status' = ZeroRec
    /\ transmit' = ZeroTransmit
    /\ receive' = ZeroReceive
    /\ i' = 0
    /\ component_id' = 0
    /\ comp_challenges' = <<>>
    /\ validate_result' = SUCCESS_RETURN
    /\ boot_result' = SUCCESS_RETURN
    /\ out' = <<>>
    /\ log' = <<>>
    /\ lastChal' = <<>>
    /\ valid' = {}
    /\ booted' = {}
    /\ typed' = NoInput
    /\ secret' = ""
    /\ address' = 0
    /\ buffer' = <<>>
    /\ stdin' = <<>>
    /\ main_buf' = <<>>
    /\ hostLine' = NoLine
    /\ ret' = 0
    /\ UNCHANGED <<build_ids, lastRep, reloaded>>

\* between two loads one cell of the stored record, in the encrypted region
\* or in the hash, is changed to another value
Tamper ==
    /\ pc = "main"
    /\ fault = "none"
    /\ \E k \in GuardedCells, v \in 0..(WordMod - 1) :
         /\ v # flash[k]
         /\ flash' = [flash EXCEPT ![k] = v]
    /\ fault' = "tamper"
    /\ flashOps' = <<>>
    /\ PowerOff

\* attempt_replace up to flash_simple_erase_page (line 562), then power is lost
replace_power_loss ==
    /\ pc = "main"
    /\ fault = "none"
    /\ \E tok \in TokenInputs, id_in \in IdSet, id_out \in IdSet :
         /\ validate_token(tok) = SUCCESS_RETURN
         /\ ReplaceResult(flash_status, id_in, id_out).write
    /\ flash' = ErasedPage
    /\ fault' = "erased in replace"
    /\ flashOps' = <<"erase">>
    /\ PowerOff

\* init() up to flash_simple_erase_page (line 238), then power is lost
init_power_loss ==
    /\ pc = "start"
    /\ fault = "none"
    /\ ~IntegrityOk(DecryptedCopy(flash))
    /\ flash' = ErasedPage
    /\ fault' = "erased in init"
    /\ flashOps' = <<"erase">>
    /\ UNCHANGED <<cmd, pc, flash_status, build_ids, transmit, receive, i, component_id,
                   comp_challenges, validate_result, boot_result, out, log, lastChal,
                   valid, booted, lastRep, reloaded, typed, secret, address, buffer, ret,
                   stdin, main_buf, hostLine>>

NextFlash ==
    \/ init \/ Reboot \/ attempt_replace \/ unknown_command
    \/ Tamper \/ replace_power_loss \/ init_power_loss

SpecFlash == Init /\ [][NextFlash]_vars

\* ---- the bus commands, started at the prompt with any roster init() can load ----
\* the bus commands are run on the builds with two components
BusRosters == {b \in BuildRosters : Len(b) = 2}
LoadedRecords ==
    {RebuiltRecord(DecryptedCopy(ErasedPage), ids, <<0, 0>>) : ids \in BusRosters}

InitLoaded ==
    /\ cmd = "none"
    /\ pc = "main"
    /\ flash_status \in LoadedRecords
    /\ flash = EncryptedCopy(flash_status)
    /\ build_ids = ActiveIdSeq(flash_status)
    /\ transmit = ZeroTransmit
    /\ receive = ZeroReceive
    /\ i = 0
    /\ component_id = 0
    /\ comp_challenges = <<>>
    /\ validate_result = SUCCESS_RETURN
    /\ boot_result = SUCCESS_RETURN
    /\ out = <<>>
    /\ log = <<>>
    /\ lastChal = <<>>
    /\ valid = {}
    /\ booted = {}
    /\ flashOps = <<>>
    /\ lastRep = NoRep
    /\ reloaded = FALSE
    /\ fault = "none"
    /\ typed = NoInput
    /\ secret = ""
    /\ address = 0
    /\ buffer = <<>>
    /\ stdin = <<>>
    /\ main_buf = <<>>
    /\ hostLine = NoLine
    /\ ret = 0

NextBus ==
    \/ attempt_boot \/ val_send1 \/ val_recv1 \/ val_send2 \/ val_recv2
    \/ boot_send \/ boot_recv
    \/ unknown_command
    \/ attempt_attest \/ att_send1 \/ att_recv1 \/ att_send2 \/ att_recv2

SpecBus == InitLoaded /\ [][NextBus]_vars

\* ---- the list command, started at the prompt with a loaded roster ----
NextScan == scan_components \/ scan_send \/ scan_recv

SpecScan == InitLoaded /\ [][NextScan]_vars

\* ---- the dispatcher with all four commands, started at the prompt ----
\* the steps inside a command: each is one ap_transmit or ap_poll_recv call
BusStep ==
    \/ val_send1 \/ val_recv1 \/ val_send2 \/ val_recv2
    \/ boot_send \/ boot_recv
    \/ att_send1 \/ att_recv1 \/ att_send2 \/ att_recv2
    \/ scan_send \/ scan_recv

NextCmd ==
    \/ scan_components \/ attempt_boot \/ attempt_replace \/ attempt_attest
    \/ unknown_command
    \/ BusStep

\* every call into the message layer returns: a command in progress takes
\* its next step
\* the prompt after init() has loaded (here: rebuilt from the erased page)
\* the roster of a build with one component
CmdRosters == {<<1>>}

InitCmd ==
    /\ cmd = "none"
    /\ pc = "main"
    /\ build_ids \in CmdRosters
    /\ flash_status = RebuiltRecord(DecryptedCopy(ErasedPage), build_ids, <<0, 0>>)
    /\ flash = EncryptedCopy(flash_status)
    /\ transmit = ZeroTransmit
    /\ receive = ZeroReceive
    /\ i = 0
    /\ component_id = 0
    /\ comp_challenges = <<>>
    /\ validate_result = SUCCESS_RETURN
    /\ boot_result = SUCCESS_RETURN
    /\ out = <<>>
    /\ log = <<>>
    /\ lastChal = <<>>
    /\ valid = {}
    /\ booted = {}
    /\ flashOps = <<>>
    /\ lastRep = NoRep
    /\ reloaded = FALSE
    /\ fault = "none"
    /\ typed = NoInput
    /\ secret = ""
    /\ address = 0
    /\ buffer = <<>>
    /\ stdin = <<>>
    /\ main_buf = <<>>
    /\ hostLine = NoLine
    /\ ret = 0

SpecCmd == InitCmd /\ [][NextCmd]_vars /\ WF_vars(BusStep)

\* ---- boot and the post-boot code's calls of secure_receive ----
NextSecure ==
    \/ attempt_boot \/ val_send1 \/ val_recv1 \/ val_send2 \/ val_recv2
    \/ boot_send \/ boot_recv
    \/ secure_receive \/ sr_recv1 \/ sr_send \/ sr_recv2

SpecSecure == InitCmd /\ [][NextSecure]_vars

\* ---- the console: main's loop reading a line with recv_input ----
\* characters are one-character strings; a line is what the host types
\* before the newline
NL == "\n"
Chars == {"a", "b"}
MaxLine == InputLen               \* lines shorter than, as long as and longer than what fits
MaxStdin == 2 * InputLen          \* the host stops writing when this much is unread
SeqsUpTo(n) == UNION {[1..m -> Chars] : m \in 0..n}
Lines == SeqsUpTo(MaxLine)
\* char buf[100] of main holds anything until the first successful read
BufValues == SeqsUpTo(InputLen - 1)
Take(sq, n) == SubSeq(sq, 1, IF n < Len(sq) THEN n ELSE Len(sq))
Drop(sq, n) == SubSeq(sq, n + 1, Len(sq))

\* number of characters fgets(buf, len, stdin) takes: up to and including
\* the first newline, and never more than len - 1
fgets_count(in, len) ==
    LET nl == {k \in 1..Len(in) : in[k] = NL}
        upto == IF nl = {} THEN Len(in) ELSE CHOOSE k \in nl : \A m \in nl : k <= m
    IN  IF upto < len - 1 THEN upto ELSE len - 1

\* buf[strlen(buf) - 1] = '\0'
DropLast(b) == SubSeq(b, 1, Len(b) - 1)

\* what the host may do once it sees the ack: write a line and its newline,
\* or nothing
HostChoices == Lines \cup {NoLine}
HostWrite(in, l) == IF l = NoLine THEN in ELSE in \o l \o <<NL>>

InputIdle ==
    UNCHANGED <<flash, flash_status, build_ids, i, component_id, comp_challenges,
                validate_result, boot_result, log, lastChal, valid, booted, flashOps,
                lastRep, reloaded, fault, typed, secret, address, buffer, ret>>

\* top of main's loop: reset_msg(), then recv_input("Enter Command: ", buf, 100)
\* up to print_ack(); the host answers the ack
recv_input ==
    /\ pc = "main"
    /\ transmit' = ZeroTransmit
    /\ receive' = ZeroReceive
    /\ out' = <<"Enter Command: ">>
    /\ \E l \in HostChoices :
         /\ l # NoLine => Len(stdin) + Len(l) + 1 <= MaxStdin
         /\ hostLine' = l
         /\ stdin' = HostWrite(stdin, l)
    /\ IF cmd = "none" THEN main_buf' \in BufValues ELSE UNCHANGED main_buf
    /\ pc' = "fgets"
    /\ UNCHANGED cmd
    /\ InputIdle

\* char *fgets_out = fgets(buf, len, stdin): NULL when there is nothing to read
fgets ==
    /\ pc = "fgets"
    /\ IF stdin = <<>>
       THEN /\ pc' = "dispatch"
            /\ UNCHANGED <<stdin, main_buf>>
       ELSE LET n == fgets_count(stdin, InputLen) IN
            /\ main_buf' = Take(stdin, n)
            /\ stdin' = Drop(stdin, n)
            /\ pc' = "strip"
    /\ UNCHANGED <<cmd, transmit, receive, out, hostLine>>
    /\ InputIdle

\* if (fgets_out != NULL) buf[strlen(buf) - 1] = '\0'
strip_newline ==
    /\ pc = "strip"
    /\ main_buf' = DropLast(main_buf)
    /\ pc' = "dispatch"
    /\ UNCHANGED <<cmd, transmit, receive, out, stdin, hostLine>>
    /\ InputIdle

\* puts(""), then main's strcmp chain: none of the lines over Chars is a
\* command word, so the last branch prints the line back
dispatch_unrecognized ==
    /\ pc = "dispatch"
    /\ cmd' = "unknown"
    /\ out' = <<"Unrecognized command", main_buf>>
    /\ pc' = "main"
    /\ UNCHANGED <<transmit, receive, stdin, main_buf, hostLine>>
    /\ InputIdle

NextInput == recv_input \/ fgets \/ strip_newline \/ dispatch_unrecognized

SpecInput == InitCmd /\ [][NextInput]_vars

(***************************************************************************)
(* Properties                                                              *)
(***************************************************************************)
Range(sq) == {sq[n] : n \in 1..Len(sq)}
LastLine(sq) == IF sq = <<>> THEN "" ELSE sq[Len(sq)]
LogIdx == 1..Len(log)
IsSend(e, ph) == e.ev = "send" /\ e.phase = ph
PeerEvents(ph, k) == SelectSeq(log, LAMBDA e : e.phase = ph /\ e.idx = k)
AllOk(pe) == \A n \in 1..Len(pe) : pe[n].ok
RosterAddr(k) == component_id_to_i2c_addr(IdAt(flash_status, k))

BootDone == cmd = "boot" /\ pc \in {"main", "post_boot"}
InBootPhase == cmd = "boot" /\ pc \in {"boot_send", "boot_recv", "main", "post_boot"}

\* component k went through send1, recv1, send2, recv2, all successful, and
\* its second reply carried its roster id
ValidatedOk(k) ==
    /\ k \in valid
    /\ Len(PeerEvents("validate", k)) = 4
    /\ AllOk(PeerEvents("validate", k))
AllValidated == \A k \in Roster : ValidatedOk(k)
AllGood == AllValidated /\ \A k \in Roster : k \in booted

\* C1: the AP> banner and the Boot marker are printed, and control is handed
\* to the post-boot code, only in a boot command in which every provisioned
\* component completed both validate rounds with its roster id and answered
\* the boot message with verdict 0; every other boot command ends with
\* "Boot Failed" back at the prompt.
BootOnlyIfAllGood ==
    /\ ("AP>" \in Range(out) \/ "Boot" \in Range(out) \/ pc = "post_boot")
          => (cmd = "boot" /\ pc = "post_boot" /\ AllGood
              /\ "AP>" \in Range(out) /\ LastLine(out) = "Boot")
    /\ (BootDone /\ ~AllGood)
          => (pc = "main" /\ LastLine(out) = "Boot Failed" /\ "AP>" \notin Range(out))

BootHandedOff == pc = "post_boot" /\ Cnt >= 2 /\ LastLine(out) = "Boot"

\* C2: when some provisioned component failed validation, every provisioned
\* component is sent a boot message whose verdict word is UINT32_MAX, the last
\* line is "Boot Failed" and there is no AP> banner.
ValidationFailureAborts ==
    (BootDone /\ ~AllValidated) =>
        /\ \A k \in Roster : \E n \in LogIdx :
              /\ IsSend(log[n], "boot")
              /\ log[n].idx = k
              /\ log[n].addr = RosterAddr(k)
              /\ log[n].contents = UINT32_MAX
        /\ \A n \in LogIdx : IsSend(log[n], "boot") => log[n].contents = UINT32_MAX
        /\ pc = "main"
        /\ LastLine(out) = "Boot Failed"
        /\ "AP>" \notin Range(out)

BootAbortedAfterInvalid ==
    BootDone /\ Cnt >= 2 /\ 0 \in valid /\ 1 \notin valid /\ LastLine(out) = "Boot Failed"

\* C3 as stated: the verdict sent to a component is 0 exactly when validation
\* passed overall, whatever earlier components answered in the boot loop.
VerdictIsValidationOnly ==
    \A n \in LogIdx : IsSend(log[n], "boot") =>
        log[n].contents = (IF AllValidated THEN SUCCESS_RETURN ELSE UINT32_MAX)

\* C3 amended: the verdict sent to component k is 0 exactly when validation
\* passed overall and every component before k in the roster answered its
\* boot message with verdict 0; otherwise it is UINT32_MAX.
VerdictFollowsBootResult ==
    \A n \in LogIdx : IsSend(log[n], "boot") =>
        log[n].contents =
            (IF AllValidated /\ \A j \in Roster : j < log[n].idx => j \in booted
             THEN SUCCESS_RETURN ELSE UINT32_MAX)

AbortSentAfterValidBoot ==
    /\ cmd = "boot"
    /\ AllValidated
    /\ \E n \in LogIdx : IsSend(log[n], "boot") /\ log[n].idx = 1 /\ log[n].contents = UINT32_MAX

\* C4 as stated: the challenge restored into receive.rng_chal before the boot
\* message to component i is the last one received from it during validation,
\* also when a validation step failed.
RestoredChallengeIsLast ==
    (pc = "boot_send" /\ lastChal[i] # NoChal) => receive.rng_chal = lastChal[i]

\* C5: every validate message is sent before the first boot message, and both
\* loops walk the roster in stored order ids[0..count).
ValidateBeforeBoot ==
    /\ \A a \in LogIdx, b \in LogIdx : a < b =>
          /\ log[a].phase = "boot" => log[b].phase = "boot"
          /\ log[a].phase = log[b].phase => log[a].idx <= log[b].idx
    /\ (\E n \in LogIdx : log[n].phase = "boot") =>
          \A k \in Roster : \E n \in LogIdx : IsSend(log[n], "validate") /\ log[n].idx = k
    /\ \A n \in LogIdx : log[n].phase \in {"validate", "boot"} =>
          /\ log[n].idx \in Roster
          /\ log[n].addr = RosterAddr(log[n].idx)
          /\ log[n].idx > 0 =>
                \E m \in 1..(n - 1) : log[m].phase = log[n].phase /\ log[m].idx = log[n].idx - 1

SecondBootMessageSent == cmd = "boot" /\ pc = "boot_recv" /\ i = 1

\* C6: validate_components does not stop at a failure: once the boot loop is
\* entered every provisioned component has been sent a validate message, and
\* validate_result is Error exactly when some component failed.
ValidateNoShortCircuit ==
    InBootPhase =>
        /\ \A k \in Roster : \E n \in LogIdx : IsSend(log[n], "validate") /\ log[n].idx = k
        /\ (validate_result = ERROR_RETURN) <=> ~AllValidated
        /\ validate_result \in {SUCCESS_RETURN, ERROR_RETURN}

LaterPeerValidatedAfterFailure ==
    /\ cmd = "boot" /\ pc = "boot_send"
    /\ Cnt >= 2
    /\ Len(PeerEvents("validate", 0)) = 1
    /\ 1 \in valid

\* C7: in validate and attest the events for one peer are send1, recv1, send2,
\* recv2 in that order, every receive with the challenge check on, a step is
\* taken only when the one before it succeeded, and the result (the captured
\* challenge, the attestation lines) is there only after recv2 succeeded.
Ordered(pe) ==
    /\ Len(pe) <= 4
    /\ \A n \in 1..Len(pe) :
          /\ pe[n].ev = (IF n % 2 = 1 THEN "send" ELSE "recv")
          /\ pe[n].ev = "recv" => ~pe[n].skip
          /\ n > 1 => pe[n - 1].ok
Completed(pe) == Len(pe) = 4 /\ AllOk(pe)

HandshakeOrder ==
    /\ cmd = "boot" =>
          \A k \in Roster :
              /\ Ordered(PeerEvents("validate", k))
              /\ (comp_challenges[k] # Uninit \/ k \in valid) => Completed(PeerEvents("validate", k))
    /\ cmd = "attest" =>
          /\ Ordered(PeerEvents("attest", 0))
          /\ Len(log) = Len(PeerEvents("attest", 0))
          /\ (Range(out) \cap {"C>", "LOC>", "DATE>", "CUST>", "Attest"} # {})
                => Completed(PeerEvents("attest", 0))

ChallengeCaptured ==
    cmd = "boot" /\ pc = "val_send1" /\ i = 1 /\ comp_challenges[0] # Uninit

\* C8: a replace that fails as Duplicate or NotProvisioned changes neither
\* the flash page nor the record in memory, and issues no erase and no write.
FailedReplaceKeepsState ==
    [][(pc = "main" /\ cmd' = "replace"
        /\ out' \in {<<"already provisioned">>, <<"not provisioned">>})
       => (flash' = flash /\ flash_status' = flash_status /\ flashOps' = <<>>)]_vars

DuplicateRefused ==
    cmd = "replace" /\ out = <<"already provisioned">> /\ flashOps = <<>>

\* C9 as stated: after a successful replace(id_out, id_in), reset and load,
\* the roster holds id_in and does not hold id_out, whatever the roster was.
ReplacePersistsOriginal ==
    (pc = "main" /\ reloaded) =>
        /\ lastRep[2] \in ActiveSet(flash_status)
        /\ lastRep[1] \notin ActiveSet(flash_status)

\* C9 amended: after a successful replace(id_out, id_in), reset and load, the
\* roster holds id_in; it does not hold id_out when id_out was in exactly one
\* active slot, and still holds it when id_out was in more than one (only the
\* first such slot is overwritten).
ReplacePersists ==
    (pc = "main" /\ reloaded) =>
        /\ lastRep[2] \in ActiveSet(flash_status)
        /\ lastRep[3] = 1 => lastRep[1] \notin ActiveSet(flash_status)
        /\ lastRep[3] > 1 => lastRep[1] \in ActiveSet(flash_status)

ReplaceReloaded == pc = "main" /\ reloaded /\ cmd = "none" /\ lastRep[3] = 1

\* C10: what was saved is what is loaded: at the prompt the flash page
\* decrypts, under the IV stored in it, to a record that passes the magic and
\* hash checks and equals the record in memory, so a load of it does not fall
\* back to the defaults.
RosterRoundTrip ==
    pc = "main" =>
        /\ IntegrityOk(DecryptedCopy(flash))
        /\ DecryptedCopy(flash) = flash_status
        /\ (cmd = "none" /\ reloaded) => (out = <<>> /\ flashOps = <<>>)

LoadedWithoutFallback ==
    pc = "main" /\ cmd = "none" /\ reloaded /\ out = <<>> /\ ActiveIdSeq(flash_status) # build_ids

LoadFailedLine == "Failed to verify flash integrity, resetting flash!"

\* the load fell back to the defaults: the debug line, the roster of the
\* build in memory, the page erased and rewritten with a record that passes
\* the magic and hash checks and decrypts to the record in memory
ResetToDefaults ==
    /\ out = <<LoadFailedLine>>
    /\ MagicOf(flash_status) = FLASH_MAGIC
    /\ ActiveIdSeq(flash_status) = build_ids
    /\ flashOps = <<"erase", "write">>
    /\ IntegrityOk(DecryptedCopy(flash))
    /\ DecryptedCopy(flash) = flash_status

\* C11: when one cell of the encrypted region or of the hash of the stored
\* record differs from what was last written, the next load fails the
\* magic/hash check, puts the roster of the build in memory and rewrites the
\* page with a valid record.
TamperDetected ==
    (pc = "main" /\ cmd = "none" /\ fault = "tamper") => ResetToDefaults

TamperedReplacedRoster ==
    /\ pc = "main" /\ cmd = "none" /\ fault = "tamper"
    /\ lastRep # NoRep
    /\ ActiveIdSeq(flash_status) = build_ids

\* C12: after a power loss between the page erase and the record write, in
\* replace or in the rebuild of init(), the next load fails the check on the
\* erased page and reinitialises: the roster of the build is in memory and
\* the page holds a record that passes the integrity check.
ErasedPageReinitialised ==
    (pc = "main" /\ cmd = "none" /\ fault \in {"erased in replace", "erased in init"})
        => ResetToDefaults

ReplaceInterruptedThenLoaded ==
    /\ pc = "main" /\ cmd = "none" /\ fault = "erased in replace"
    /\ lastRep = NoRep
    /\ IntegrityOk(DecryptedCopy(flash))

\* the addresses a scan is to reach: [0x08, 0x78) without 0x18, 0x28, 0x36
ReservedAddrs == {24, 40, 54}
ScanTargets == {a \in 8..119 : a \notin ReservedAddrs}
LogAddrs == {log[n].addr : n \in LogIdx}

\* C13: during one list command no frame goes to 0x18, 0x28 or 0x36, every
\* other address of [0x08, 0x78) is sent a SCAN frame exactly once (in
\* ascending order), the P> line of every provisioned id is on the console
\* before the first frame is sent, and the command ends with the List marker
\* whatever the addresses answered.
ListScansEveryAddressOnce ==
    cmd = "list" =>
        /\ \A n \in LogIdx :
              /\ log[n].ev = "send"
              /\ log[n].addr \in ScanTargets
              /\ log[n].opcode = COMPONENT_CMD_SCAN
        /\ \A n \in LogIdx, m \in LogIdx : n < m => log[n].addr < log[m].addr
        /\ Len(out) >= Cnt
        /\ \A k \in Roster : out[k + 1] = "P>" \o ToString(IdAt(flash_status, k))
        /\ pc = "main" <=> LastLine(out) = "List"
        /\ pc = "main" => LogAddrs = ScanTargets
        /\ pc = "scan_send" => LogAddrs = {a \in ScanTargets : a < i}

ListEndedWithResponder ==
    /\ cmd = "list" /\ pc = "main"
    /\ Len(log) = 109
    /\ Len(out) = Cnt + 2
    /\ LastLine(out) = "List"

\* C14: after load, the record in memory and the flash page change, and the
\* page is erased or written, only in a replace command whose token was the
\* right one; list, boot, attest, an unknown command and a replace with a
\* wrong token leave both as they were.
RosterChangesOnlyInReplace ==
    [][(flash' # flash \/ flash_status' # flash_status \/ flashOps' # <<>>)
       => (pc = "main" /\ cmd' = "replace" /\ secret' = "0123456789abcdef")]_vars

BootRunOnReplacedRoster ==
    /\ cmd = "boot" /\ pc = "main"
    /\ ActiveIdSeq(flash_status) # build_ids
    /\ DecryptedCopy(flash) = flash_status

AtPrompt == pc = "main"
HandedOff == pc = "post_boot" /\ cmd = "boot" /\ boot_result = SUCCESS_RETURN

\* C16: with every call into the message layer returning, a command in
\* progress ends at the dispatcher prompt unless it is a boot that succeeded;
\* replace, an unknown command and a refused PIN or token are back at the
\* prompt at once; the post-boot code is entered only by a boot whose result
\* is Success, and from there no further command is read.
CommandsReturnToPrompt ==
    /\ (~AtPrompt /\ pc # "post_boot") ~> (AtPrompt \/ HandedOff)
    /\ [](pc = "post_boot" => (HandedOff /\ LastLine(out) = "Boot"))
    /\ [][(pc = "main" /\ cmd' \in {"replace", "unknown"}) => pc' = "main"]_vars
    /\ [][(pc = "main" /\ cmd' = "attest" /\ secret' # "123456") => pc' = "main"]_vars
    /\ [][pc = "post_boot" => (pc' = "post_boot" /\ cmd' = cmd)]_vars

ReturnedAfterFailedBoot ==
    /\ cmd = "boot" /\ pc = "main"
    /\ LastLine(out) = "Boot Failed"
    /\ Len(log) = 3 * Cnt

AttestFields == {"C>", "LOC>", "DATE>", "CUST>"}

\* C15 as stated: an attest command puts a frame on the bus, or prints an
\* attestation field, only when the PIN typed was the right one and the id
\* typed at the Component ID prompt is in the active roster.
AttestOnlyForRequestedProvisioned ==
    (cmd = "attest" /\ (log # <<>> \/ Range(out) \cap AttestFields # {}))
        => (secret = "123456" /\ typed \in ActiveSet(flash_status))

\* what a returned call of secure_receive leaves, given the calls it made
SrReturned ==
    IF ~log[1].ok
    THEN ret = -1 /\ Len(log) = 1
    ELSE /\ Len(log) = 3
         /\ IF ~log[3].ok \/ receive.contents[1] > 64
            THEN ret = -1
            ELSE /\ ret = receive.contents[1]
                 /\ ret \in 0..64
                 /\ \A k \in 1..ret : buffer[k] = receive.contents[k + 1]

\* C17: secure_receive calls recv with the challenge check skipped, then
\* transmit, then recv with the check on, all to the address given; it
\* returns -1 when a receive failed or the length prefix is above 64 and
\* the length prefix (0..64) otherwise, whatever transmit returned; it writes
\* the first len bytes of the buffer with the payload and no other byte.
SecureReceiveContract ==
    /\ [](cmd = "secure_receive" =>
            /\ Len(log) <= 3
            /\ \A n \in LogIdx :
                  /\ log[n].addr = address
                  /\ log[n].ev = (IF n = 2 THEN "send" ELSE "recv")
                  /\ log[n].ev = "recv" => (log[n].skip <=> n = 1)
            /\ Len(log) >= 2 => log[1].ok
            /\ ret \in {-1} \cup 0..64
            /\ (pc = "post_boot") => SrReturned
            /\ (pc # "post_boot") => (ret = 0 /\ Len(log) < 3))
    /\ [][(cmd' = "secure_receive" /\ pc # "post_boot")
           => \A k \in 1..BufLen : k > ret' => buffer'[k] = buffer[k]]_vars

ReceivedFullPayloadAfterFailedTransmit ==
    /\ cmd = "secure_receive" /\ pc = "post_boot"
    /\ ret = 64
    /\ ~log[2].ok
    /\ buffer[64] = receive.contents[65]
    /\ buffer[65] = 255

SendSteps == {"val_send1", "val_send2", "boot_send", "att_send1", "att_send2", "scan_send"}
InCommand(p) == p \notin {"start", "main", "post_boot"}
CommandOpcode ==
    IF cmd = "list" THEN COMPONENT_CMD_SCAN
    ELSE IF cmd = "attest" THEN COMPONENT_CMD_ATTEST
    ELSE COMPONENT_CMD_VALIDATE

\* C18 as stated: at the first send of every per-peer exchange (an address
\* of the scan, a component of the validate loop, a component of the boot
\* loop, the attest exchange) both frames are zero apart from the fields
\* just set for this exchange (the opcode in scan, validate and attest; the
\* restored challenge and the verdict in boot).
FramesClearedBetweenPeers ==
    /\ pc \in {"val_send1", "att_send1", "scan_send"} =>
          /\ receive.rng_chal = 0
          /\ receive.contents = 0
          /\ transmit.contents = 0
    /\ pc = "boot_send" =>
          /\ receive.contents = 0
          /\ transmit.opcode = COMPONENT_CMD_NONE

\* C18 amended: the frames are zeroed once per command, before the
\* dispatcher reads it: at the first send of the first exchange of a command
\* both frames are zero apart from the opcode just set; inside a command no
\* step zeroes them: the opcode stays, a send step leaves the receive frame
\* as it is, and only the boot loop writes the verdict and the challenge, so
\* a later exchange starts with what the one before it left.
FramesClearedPerCommand ==
    /\ []((pc \in SendSteps /\ log = <<>>) =>
            /\ receive.rng_chal = 0
            /\ receive.contents = 0
            /\ transmit.contents = 0
            /\ transmit.opcode = CommandOpcode)
    /\ [][(InCommand(pc) /\ InCommand(pc')) =>
            /\ transmit'.opcode = transmit.opcode
            /\ pc' # "boot_send" => transmit'.contents = transmit.contents
            /\ pc \in SendSteps =>
                  /\ receive'.contents = receive.contents
                  /\ pc' # "boot_send" => receive'.rng_chal = receive.rng_chal]_vars

ScanSendWithLeftoverReply ==
    /\ cmd = "list" /\ pc = "scan_send"
    /\ i > 8
    /\ receive.contents # 0
    /\ receive.rng_chal # 0

Distinct(sq) == \A a \in 1..Len(sq), b \in 1..Len(sq) : a # b => sq[a] # sq[b]
SlotIdx == 0..(NumSlots - 1)

\* the record after replace(id_out, id_in) on record r: slot k, the first
\* active one holding id_out, now holds id_in; nothing else of the header,
\* the ids and the IV differs
SwappedFirst(r, rn, id_out, id_in) ==
    \E k \in 0..(CntOf(r) - 1) :
        /\ IdAt(r, k) = id_out
        /\ \A m \in 0..(k - 1) : IdAt(r, m) # id_out
        /\ IdAt(rn, k) = id_in
        /\ \A m \in SlotIdx \ {k} : IdAt(rn, m) = IdAt(r, m)
        /\ CntOf(rn) = CntOf(r)
        /\ MagicOf(rn) = MagicOf(r)
        /\ IvOf(rn) = IvOf(r)

\* C19: a successful replace(id_out, id_in) overwrites the first active slot
\* holding id_out with id_in and leaves the count, the magic, every other id
\* slot and the IV as they were; the page is written under that same IV, and
\* the IV of the page changes only when init() rebuilds the record.
ReplaceOverwritesFirstSlot ==
    /\ [][(pc = "main" /\ cmd' = "replace" /\ out' = <<"Replace">>) =>
            /\ SwappedFirst(flash_status, flash_status', lastRep'[1], lastRep'[2])
            /\ IvOf(flash') = IvOf(flash)
            /\ IvOf(flash') = IvOf(flash_status')
            /\ DecryptedCopy(flash') = flash_status']_vars
    /\ [][IvOf(flash') # IvOf(flash) =>
            (pc = "start" /\ out' = <<LoadFailedLine>> /\ flashOps' = <<"erase", "write">>)]_vars

FirstOfTwoSlotsReplaced ==
    /\ cmd = "replace" /\ out = <<"Replace">>
    /\ lastRep[3] = 2
    /\ IdAt(flash_status, 0) = lastRep[2]
    /\ lastRep[1] \in ActiveSet(flash_status)
    /\ IvOf(flash) = IvOf(flash_status)

\* C20: when the ids of the build are pairwise distinct, the active ids are
\* pairwise distinct and the count is that of the build (and at most the
\* number of slots) after any sequence of replace commands and reloads,
\* refused ones and replace(x, x) included.
DistinctStaysDistinct ==
    (pc = "main" /\ Distinct(build_ids)) =>
        /\ Distinct(ActiveIdSeq(flash_status))
        /\ Cnt = Len(build_ids)
        /\ Cnt <= NumSlots

EverySlotReplaced ==
    /\ pc = "main" /\ cmd = "replace"
    /\ Distinct(build_ids) /\ Len(build_ids) = 2
    /\ \A k \in Roster : IdAt(flash_status, k) # build_ids[k + 1]
    /\ reloaded

\* C21: after recv_input the buffer holds the characters of the line the
\* host typed at this prompt, up to what fits, with only the newline taken
\* off, and nothing of that line is left for the read of a later prompt;
\* for short, full-length, over-long and empty lines alike.
RecvInputStripsOnlyNewline ==
    (pc = "dispatch" /\ hostLine # NoLine) =>
        /\ main_buf = Take(hostLine, InputLen - 1)
        /\ stdin = <<>>

\* the ap_transmit calls of the current command made in the given phase
SendsOf(phase) == {k \in 1..Len(log) : log[k].ev = "send" /\ log[k].phase = phase}

\* C22: every frame boot_components sends carries the opcode the validate
\* loop left in the transmit frame, VALIDATE; boot_components never writes
\* the opcode, no frame sent has opcode BOOT, and a boot frame differs from
\* a validate frame in its verdict contents (and its challenge) only.
BootFramesCarryValidateOpcode ==
    /\ [](/\ pc \in {"boot_send", "boot_recv"} => transmit.opcode = COMPONENT_CMD_VALIDATE
          /\ \A k \in 1..Len(log) : log[k].ev = "send" => log[k].opcode # COMPONENT_CMD_BOOT
          /\ \A k \in SendsOf("validate") :
                log[k].opcode = COMPONENT_CMD_VALIDATE /\ log[k].contents = 0
          /\ \A k \in SendsOf("boot") :
                /\ log[k].opcode = COMPONENT_CMD_VALIDATE
                /\ log[k].contents \in {SUCCESS_RETURN, UINT32_MAX})
    /\ [][pc' \in {"boot_send", "boot_recv"} => transmit'.opcode = transmit.opcode]_vars

BootFramesWithBothVerdicts ==
    /\ cmd = "boot"
    /\ \E j \in SendsOf("boot"), k \in SendsOf("boot") :
         /\ j < k
         /\ log[j].contents = SUCCESS_RETURN /\ log[k].contents = UINT32_MAX
         /\ log[j].opcode = COMPONENT_CMD_VALIDATE /\ log[k].opcode = COMPONENT_CMD_VALIDATE

====
